---- MODULE Spec2Model ----
(***************************************************************************)
(* Model of the port scanner backend (backend/server.js): the address      *)
(* classifier, the port validator, the target resolver, the rate limiter,  *)
(* the TCP probe and the handleScan request handler.                       *)
(*                                                                         *)
(* JavaScript strings are sequences of one-character strings, so that      *)
(* split, trim, toLowerCase, startsWith, includes and Number are computed  *)
(* as the code computes them.  JavaScript values that can be of several    *)
(* types are tagged records: Str(s), Num(n), NaN, Undefined, ...           *)
(***************************************************************************)
EXTENDS Integers, Sequences, FiniteSets, TLC

VARIABLES
    call,          \* pure-function specifications: the call being made
    ret,           \* ... and its outcome (Pending before the call)
    now,           \* Date.now(), in milliseconds
    ticks,         \* number of clock advances so far (bounds the run)
    rateLimitMap,  \* server.js:12, clientId -> last admitted timestamp
    req            \* per request: position in handleScan and its locals

vars == <<call, ret, now, ticks, rateLimitMap, req>>

(***************************************************************************)
(* JavaScript values                                                       *)
(***************************************************************************)
Str(s) == [t |-> "string", s |-> s]
Num(n) == [t |-> "number", v |-> n]
NaN == [t |-> "NaN"]
Undefined == [t |-> "undefined"]
Null == [t |-> "null"]
Bool(b) == [t |-> "boolean", b |-> b]
Arr(a) == [t |-> "array", a |-> a]
Pending == [t |-> "pending"]

Min(S) == CHOOSE x \in S : \A y \in S : x <= y

(***************************************************************************)
(* Characters and strings                                                  *)
(***************************************************************************)
DigitChars == <<"0", "1", "2", "3", "4", "5", "6", "7", "8", "9">>
UpperChars == <<"A", "B", "C", "D", "E", "F", "G", "H", "I", "J", "K", "L", "M",
                "N", "O", "P", "Q", "R", "S", "T", "U", "V", "W", "X", "Y", "Z">>
LowerChars == <<"a", "b", "c", "d", "e", "f", "g", "h", "i", "j", "k", "l", "m",
                "n", "o", "p", "q", "r", "s", "t", "u", "v", "w", "x", "y", "z">>
HexLetters == {"a", "b", "c", "d", "e", "f", "A", "B", "C", "D", "E", "F"}
WhiteSpace == {" ", "\t", "\n"}

Range(f) == {f[i] : i \in DOMAIN f}
IsDigit(c) == c \in Range(DigitChars)
IsHexDigit(c) == IsDigit(c) \/ c \in HexLetters
IsLetter(c) == c \in Range(UpperChars) \/ c \in Range(LowerChars)
DigitVal(c) == (CHOOSE i \in DOMAIN DigitChars : DigitChars[i] = c) - 1

\* String.prototype.toLowerCase
LowerChar(c) ==
    IF c \in Range(UpperChars)
    THEN LowerChars[CHOOSE i \in DOMAIN UpperChars : UpperChars[i] = c]
    ELSE c
toLowerCase(s) == [i \in 1..Len(s) |-> LowerChar(s[i])]

\* String.prototype.startsWith
startsWith(s, p) == Len(s) >= Len(p) /\ SubSeq(s, 1, Len(p)) = p

\* String.prototype.includes
includes(s, p) ==
    \E i \in 1..(Len(s) + 1) :
        i + Len(p) - 1 <= Len(s) /\ SubSeq(s, i, i + Len(p) - 1) = p

\* String.prototype.trim
trim(s) ==
    LET keep == {i \in 1..Len(s) : s[i] \notin WhiteSpace}
    IN  IF keep = {} THEN <<>>
        ELSE SubSeq(s, Min(keep), CHOOSE i \in keep : \A j \in keep : j <= i)

\* Index of the first occurrence of character ch in s, 0 when there is none.
IndexOf(s, ch) ==
    LET hits == {i \in 1..Len(s) : s[i] = ch}
    IN  IF hits = {} THEN 0 ELSE Min(hits)

\* String.prototype.split with a one-character separator
RECURSIVE split(_, _)
split(s, ch) ==
    LET i == IndexOf(s, ch)
    IN  IF i = 0 THEN <<s>>
        ELSE <<SubSeq(s, 1, i - 1)>> \o split(SubSeq(s, i + 1, Len(s)), ch)

\* Value of a string of decimal digits.
RECURSIVE DecimalValue(_)
DecimalValue(s) ==
    IF s = <<>> THEN 0
    ELSE 10 * DecimalValue(SubSeq(s, 1, Len(s) - 1)) + DigitVal(s[Len(s)])

\* Number(string), on the strings the model feeds it: surrounding white
\* space is dropped, the empty string is 0, a run of decimal digits is its
\* value, and every other string of the model's inputs is NaN.
StringToNumber(s) ==
    LET t == trim(s)
    IN  IF t = <<>> THEN Num(0)
        ELSE IF \A i \in 1..Len(t) : IsDigit(t[i]) THEN Num(DecimalValue(t))
        ELSE NaN

\* Decimal text of a natural number (Number.prototype.toString).
RECURSIVE ToDecimal(_)
ToDecimal(n) ==
    IF n < 10 THEN <<DigitChars[n + 1]>>
    ELSE ToDecimal(n \div 10) \o <<DigitChars[(n % 10) + 1]>>

(***************************************************************************)
(* net.isIP, as server.js:39-40 and :79 call it (Node's IPv4 and IPv6      *)
(* literal syntax)                                                         *)
(***************************************************************************)
\* One dotted-decimal octet: 1 to 3 digits, no leading zero, at most 255.
IsV4Seg(s) ==
    /\ Len(s) \in 1..3
    /\ \A i \in 1..Len(s) : IsDigit(s[i])
    /\ (Len(s) > 1 => s[1] # "0")
    /\ DecimalValue(s) <= 255

isIPv4(s) ==
    LET parts == split(s, ".")
    IN  Len(parts) = 4 /\ \A i \in 1..4 : IsV4Seg(parts[i])

\* One IPv6 group: 1 to 4 hexadecimal digits.
IsV6Seg(s) == Len(s) \in 1..4 /\ \A i \in 1..Len(s) : IsHexDigit(s[i])

\* Number of 16-bit groups a colon-separated run denotes (a trailing dotted
\* IPv4 part counts for two), or -1 when the run is malformed.
V6GroupCount(s) ==
    IF s = <<>> THEN 0
    ELSE LET parts == split(s, ":")
             n == Len(parts)
         IN  IF \A i \in 1..n : IsV6Seg(parts[i]) THEN n
             ELSE IF (\A i \in 1..(n - 1) : IsV6Seg(parts[i])) /\ isIPv4(parts[n])
                  THEN n + 1
             ELSE -1

\* Position of the first "::" in s, 0 when there is none.
GapIndex(s) ==
    LET hits == {i \in 1..(Len(s) - 1) : s[i] = ":" /\ s[i + 1] = ":"}
    IN  IF hits = {} THEN 0 ELSE Min(hits)

IsZoneChar(c) == IsDigit(c) \/ IsLetter(c) \/ c \in {"-", ".", ":"}

isIPv6(s) ==
    LET pct  == IndexOf(s, "%")
        base == IF pct = 0 THEN s ELSE SubSeq(s, 1, pct - 1)
        zone == IF pct = 0 THEN <<>> ELSE SubSeq(s, pct + 1, Len(s))
        gap  == GapIndex(base)
        left == V6GroupCount(SubSeq(base, 1, gap - 1))
        right == V6GroupCount(SubSeq(base, gap + 2, Len(base)))
    IN  /\ pct # 0 => (zone # <<>> /\ \A i \in 1..Len(zone) : IsZoneChar(zone[i]))
        /\ IF gap = 0
           THEN base # <<>> /\ V6GroupCount(base) = 8
           ELSE left >= 0 /\ right >= 0 /\ left + right <= 7

\* net.isIP(input): the input is converted to a string first.
isIP(s) == IF isIPv4(s) THEN 4 ELSE IF isIPv6(s) THEN 6 ELSE 0

(***************************************************************************)
(* AddressClassifier: server.js:14-42                                      *)
(***************************************************************************)
\* Number.isNaN(o) || o < 0 || o > 255
BadOctet(o) == o = NaN \/ (o.t = "number" /\ (o.v < 0 \/ o.v > 255))

\* A plausible slip in the 172.16.0.0/12 test: the upper limit is left out.
PrivateV4RangeNoUpper(a, b) ==
    \/ a = 10
    \/ a = 127
    \/ a = 0
    \/ (a = 169 /\ b = 254)
    \/ (a = 172 /\ b >= 16)
    \/ (a = 192 /\ b = 168)

\* The range tests of isPrivateIpv4 on the first two octets.
PrivateV4Range(a, b) ==
    \/ a = 10
    \/ a = 127
    \/ a = 0
    \/ (a = 169 /\ b = 254)
    \/ (a = 172 /\ b >= 16 /\ b <= 31)
    \/ (a = 192 /\ b = 168)

isPrivateIpv4(address) ==
    LET parts  == split(address, ".")
        octets == [i \in 1..Len(parts) |-> StringToNumber(parts[i])]
    IN  IF Len(octets) # 4 \/ \E i \in 1..Len(octets) : BadOctet(octets[i])
        THEN TRUE
        ELSE PrivateV4Range(octets[1].v, octets[2].v)

isPrivateIpv6(address) ==
    LET normalized == toLowerCase(address)
    IN  \/ normalized = <<":", ":", "1">>
        \/ startsWith(normalized, <<"f", "e", "8", "0", ":">>)
        \/ startsWith(normalized, <<"f", "c">>)
        \/ startsWith(normalized, <<"f", "d">>)

\* address is Str(s) or Undefined; !address holds of undefined and of "".
isPrivateIp(address) ==
    IF address.t # "string" \/ address.s = <<>> THEN TRUE
    ELSE IF isIP(address.s) = 4 THEN isPrivateIpv4(address.s)
    ELSE IF isIP(address.s) = 6 THEN isPrivateIpv6(address.s)
    ELSE TRUE

(***************************************************************************)
(* Inputs of the address classifier                                        *)
(***************************************************************************)
\* First and second octets around every boundary of the ranges the
\* classifier tests, and the multicast and broadcast ranges.
FirstOctets == {0, 1, 8, 9, 10, 11, 100, 126, 127, 128, 168, 169, 170, 171, 172,
                173, 191, 192, 193, 223, 224, 239, 240, 255}
SecondOctets == {0, 1, 15, 16, 17, 31, 32, 64, 167, 168, 169, 253, 254, 255}
LastOctets == {1, 255}

\* The dotted-decimal text of an IPv4 address.
FormatV4(o) ==
    ToDecimal(o[1]) \o <<".">> \o ToDecimal(o[2]) \o <<".">> \o
    ToDecimal(o[3]) \o <<".">> \o ToDecimal(o[4])

V4Quads ==
    {<<a, b, 0, d>> : a \in FirstOctets, b \in SecondOctets, d \in LastOctets}
        \cup {<<8, 8, 8, 8>>, <<1, 1, 1, 1>>, <<172, 16, 0, 5>>, <<192, 168, 1, 1>>,
              <<255, 255, 255, 255>>, <<0, 0, 0, 0>>}

\* Well-formed IPv6 literals.
V6Texts ==
    { <<":", ":", "1">>,
      <<":", ":">>,
      <<"f", "e", "8", "0", ":", ":", "1">>,
      <<"F", "E", "8", "0", ":", ":", "1">>,
      <<"f", "e", "8", "0", ":", ":", "1", "%", "e", "t", "h", "0">>,
      <<"f", "c", "0", "0", ":", ":", "1">>,
      <<"F", "D", "1", "2", ":", ":", "1">>,
      <<"f", "e", "c", "0", ":", ":", "1">>,
      <<"2", "0", "0", "1", ":", "4", "8", "6", "0", ":", "4", "8", "6", "0", ":", ":", "8", "8", "8", "8">>,
      <<"0", ":", "0", ":", "0", ":", "0", ":", "0", ":", "0", ":", "0", ":", "1">>,
      <<":", ":", "f", "f", "f", "f", ":", "1", "2", "7", ".", "0", ".", "0", ".", "1">>,
      <<"f", "f", "0", "2", ":", ":", "1">>,
      <<"f", "e", "9", "0", ":", ":", "1">>,
      <<"1", ":", "2", ":", "3", ":", "4", ":", "5", ":", "6", ":", "7", ":", "8">>,
      <<"1", ":", "2", ":", "3", ":", "4", ":", "5", ":", "6", ":", "7", ":", ":">>,
      <<"1", ":", "2", ":", "3", ":", "4", ":", "5", ":", "6", ":", "1", ".", "2", ".", "3", ".", "4">>,
      <<":", ":", "1", ".", "2", ".", "3", ".", "4">>,
      <<"f", "c", ":", ":">>,
      <<"F", "d", "0", "0", ":", "1", ":", ":", "2">>,
      <<":", ":", "2">>,
      <<"1", ":", ":">> }

\* Strings that are neither an IPv4 nor an IPv6 literal (the empty string is
\* added where the inputs are assembled).
NonIpTexts ==
    { <<"a", "b", "c">>,
      <<"1", ".", "2", ".", "3">>,
      <<"1", ".", "2", ".", "3", ".", "4", ".", "5">>,
      <<"2", "5", "6", ".", "1", ".", "1", ".", "1">>,
      <<"0", "1", ".", "2", ".", "3", ".", "4">>,
      <<"1", ".", ".", "2", ".", "3">>,
      <<"1", "0", ".", "0", ".", "0", ".", "1", " ">>,
      <<" ", "8", ".", "8", ".", "8", ".", "8">>,
      <<"8", ".", "8", ".", "8", ".", "8", ".">>,
      <<"1", ".", "2", ".", "3", ".", "a">>,
      <<"f", "e", "8", "0">>,
      <<"f", "c", "a", "b">>,
      <<"f", "d">>,
      <<"1", ":", "2", ":", "3", ":", "4", ":", "5", ":", "6", ":", "7", ":", "8", ":", "9">>,
      <<":", ":", ":">>,
      <<"1", "2", "3", "4", "5", ":", ":", "1">>,
      <<"g", ":", ":", "1">>,
      <<"1", ":", ":", "2", ":", ":", "3">>,
      <<"1", ":", "2", ":", "3", ":", "4", ":", "5", ":", "6", ":", "7", ":", "8", ":", ":">>,
      <<"1", ":", "2", ":", "3", ":", "4", ":", "5", ":", "6", ":", "7", ":", "1", ".", "2", ".", "3", ".", "4">>,
      <<"f", "e", "8", "0", ":", ":", "1", "%">>,
      <<"1", ":", "2", ":", "3", ":", "4", ":", "5", ":", "6", ":", "7", ":">>,
      <<":", ":", "1", ".", "2", ".", "3">>,
      <<"1", ":", "2", ":", "3", ":", "4", ":", "5", ":", "6", ":", ":", "1", ".", "2", ".", "3", ".", "4">>,
      <<"l", "o", "c", "a", "l", "h", "o", "s", "t">>,
      <<"a", ".", "i", "o">>,
      <<":">> }

\* An input of the classifier, with what it was built from: kind "v4" with
\* its four octets, kind "v6", or kind "other" (no address literal).
V4Input(o) == [kind |-> "v4", octets |-> o, arg |-> Str(FormatV4(o))]
V6Input(s) == [kind |-> "v6", octets |-> <<>>, arg |-> Str(s)]
OtherInput(v) == [kind |-> "other", octets |-> <<>>, arg |-> v]

AddressInputs ==
    {V4Input(o) : o \in V4Quads}
        \cup {V6Input(s) : s \in V6Texts}
        \cup {OtherInput(Str(s)) : s \in NonIpTexts \cup {<<>>}}
        \cup {OtherInput(Undefined)}

(***************************************************************************)
(* The server before any request: server.js:12 and the start of the clock  *)
(***************************************************************************)
RATE_LIMIT_WINDOW_MS == 10000
\* Date.now() when the server starts.  The real clock is far beyond one
\* rate-limit window after the epoch; the model starts two windows after it.
StartTime == 2 * RATE_LIMIT_WINDOW_MS
\* Two requests, so that one can arrive, be handled and probe while the
\* other is in flight.
Reqs == {1, 2}
EmptyMap == [c \in {} |-> 0]
\* A request that has not arrived: position and locals of handleScan, the
\* sockets it opened (probes) and the responses it wrote.  order, at and
\* during record when its 'end' handler ran: its rank among the handlers
\* run so far, Date.now(), and the requests then waiting for DNS or a probe.
IdleReq ==
    [ pc |-> "idle", remote |-> Undefined, body |-> Undefined,
      clientId |-> "", order |-> 0, at |-> 0, during |-> {},
      admitted |-> FALSE,
      ports |-> <<>>, dns |-> Undefined,
      hostname |-> Undefined, address |-> Undefined,
      sock |-> Undefined, probes |-> <<>>, results |-> <<>>, responses |-> <<>> ]

ServerStart ==
    /\ now = StartTime
    /\ ticks = 0
    /\ rateLimitMap = EmptyMap
    /\ req = [r \in Reqs |-> IdleReq]

serverVars == <<now, ticks, rateLimitMap, req>>

(***************************************************************************)
(* SpecClassify: isPrivateIp applied to one input                          *)
(***************************************************************************)
InitClassify ==
    /\ call \in {[fn |-> "isPrivateIp", in |-> i] : i \in AddressInputs}
    /\ ret = Pending
    /\ ServerStart

CallIsPrivateIp ==
    /\ call.fn = "isPrivateIp"
    /\ ret = Pending
    /\ ret' = Bool(isPrivateIp(call.in.arg))
    /\ UNCHANGED <<call, serverVars>>

NextClassify == CallIsPrivateIp

SpecClassify == InitClassify /\ [][NextClassify]_vars

\* The classification the specification gives, from what the input was
\* built from rather than from its text: the private IPv4 blocks by their
\* prefixes, the IPv6 rules by the leading characters, all else private.
RefPrivateV4(o) ==
    \/ o[1] \in {0, 10, 127}
    \/ (o[1] = 169 /\ o[2] = 254)
    \/ (o[1] = 172 /\ o[2] \div 16 = 1)
    \/ (o[1] = 192 /\ o[2] = 168)

RefPrivateV6(s) ==
    \/ s = <<":", ":", "1">>
    \/ (Len(s) >= 5 /\ s[1] \in {"f", "F"} /\ s[2] \in {"e", "E"}
            /\ s[3] = "8" /\ s[4] = "0" /\ s[5] = ":")
    \/ (Len(s) >= 2 /\ s[1] \in {"f", "F"} /\ s[2] \in {"c", "C", "d", "D"})

RefIsPrivate(i) ==
    CASE i.kind = "v4" -> RefPrivateV4(i.octets)
      [] i.kind = "v6" -> RefPrivateV6(i.arg.s)
      [] OTHER -> TRUE

\* C4: isPrivateIp returns a boolean on every input (it never throws) and
\* agrees with the reference classifier: a well-formed IPv4 address is
\* private iff it lies in 10/8, 127/8, 0/8, 169.254/16, 172.16/12 or
\* 192.168/16; an IPv6 literal iff it is ::1 or begins with fe80:, fc or fd
\* in any case; every other input is private.
C4_ClassifierMatchesReference ==
    (call.fn = "isPrivateIp" /\ ret # Pending) =>
        (ret.t = "boolean" /\ ret.b = RefIsPrivate(call.in))

\* A public IPv4 address in 172.32.0.0, just above the 172.16/12 block, has
\* been classified.
C4_Witness ==
    /\ call.fn = "isPrivateIp"
    /\ ret # Pending
    /\ call.in.kind = "v4"
    /\ call.in.octets[1] = 172
    /\ call.in.octets[2] = 32
    /\ ret = Bool(FALSE)

(***************************************************************************)
(* PortValidator: server.js:5-8 and 49-69                                  *)
(***************************************************************************)
ALLOWED_PORTS == <<21, 22, 25, 53, 80, 110, 143, 443, 465, 587, 993, 995, 8080>>
MAX_PORTS == 20

Obj == [t |-> "object"]
Throw(message) == [t |-> "throw", message |-> message]
Return(value) == [t |-> "return", value |-> value]

\* 'Ports must be an array'
MsgPortsArray ==
    <<"P", "o", "r", "t", "s", " ", "m", "u", "s", "t", " ", "b", "e", " ",
      "a", "n", " ", "a", "r", "r", "a", "y">>

\* 'At least one port is required'
MsgPortRequired ==
    <<"A", "t", " ", "l", "e", "a", "s", "t", " ", "o", "n", "e", " ", "p",
      "o", "r", "t", " ", "i", "s", " ", "r", "e", "q", "u", "i", "r", "e",
      "d">>

\* 'Cannot scan more than 20 ports'
MsgTooManyPorts ==
    <<"C", "a", "n", "n", "o", "t", " ", "s", "c", "a", "n", " ", "m", "o",
      "r", "e", " ", "t", "h", "a", "n", " ", "2", "0", " ", "p", "o", "r",
      "t", "s">>

\* 'Ports must be in the allowed list'
MsgAllowedList ==
    <<"P", "o", "r", "t", "s", " ", "m", "u", "s", "t", " ", "b", "e", " ",
      "i", "n", " ", "t", "h", "e", " ", "a", "l", "l", "o", "w", "e", "d",
      " ", "l", "i", "s", "t">>

\* Number(v) on a JSON value: a number is itself, a string is parsed, null
\* and false are 0, true is 1, an array converts through its text (empty
\* is 0, one element is that element's text, longer is NaN since the text
\* holds a comma), undefined and a plain object are NaN.
RECURSIVE Number(_)
Number(v) ==
    CASE v.t = "number" -> v
      [] v.t = "NaN" -> NaN
      [] v.t = "string" -> StringToNumber(v.s)
      [] v.t = "null" -> Num(0)
      [] v.t = "boolean" -> IF v.b THEN Num(1) ELSE Num(0)
      [] v.t = "array" ->
            IF Len(v.a) = 0 THEN Num(0)
            ELSE IF Len(v.a) > 1 THEN NaN
            ELSE IF v.a[1].t \in {"null", "undefined"} THEN Num(0)
            ELSE IF v.a[1].t \in {"boolean", "object"} THEN NaN
            ELSE Number(v.a[1])
      [] OTHER -> NaN

\* Array.from(new Set(ports)): a Set keeps its members in insertion order
\* and ignores a value it already holds (NaN is equal to NaN in a Set).
RECURSIVE SetInsert(_, _)
SetInsert(members, rest) ==
    IF rest = <<>> THEN members
    ELSE SetInsert(IF \E i \in 1..Len(members) : members[i] = rest[1]
                   THEN members
                   ELSE Append(members, rest[1]),
                   Tail(rest))

\* A plausible slip: the duplicates are kept.
dedupePortsKeepAll(ports) == ports

\* A plausible slip: the members are collected at the front (unshift), so
\* the result is in reverse order of first occurrence.
dedupePortsPrepend(ports) ==
    LET d == SetInsert(<<>>, ports)
    IN  [i \in 1..Len(d) |-> d[Len(d) + 1 - i]]

dedupePorts(ports) == SetInsert(<<>>, ports)

\* ALLOWED_PORTS.includes(p)
IsAllowedPort(p) == p.t = "number" /\ p.v \in Range(ALLOWED_PORTS)

\* A plausible slip: the ports outside the allow-list are dropped from the
\* result instead of failing the call.
validatePortsDropping(ports) ==
    IF ports.t # "array" THEN Throw(MsgPortsArray)
    ELSE LET uniquePorts == dedupePorts([i \in 1..Len(ports.a) |-> Number(ports.a[i])])
             valid == SelectSeq(uniquePorts, IsAllowedPort)
         IN  IF Len(uniquePorts) = 0 THEN Throw(MsgPortRequired)
             ELSE IF Len(uniquePorts) > MAX_PORTS THEN Throw(MsgTooManyPorts)
             ELSE Return(valid)

IsNotAllowedPort(p) == ~IsAllowedPort(p)

\* A plausible slip: the allow-list check placed before the size check.
validatePortsAllowFirst(ports) ==
    IF ports.t # "array" THEN Throw(MsgPortsArray)
    ELSE LET uniquePorts == dedupePorts([i \in 1..Len(ports.a) |-> Number(ports.a[i])])
             invalid == SelectSeq(uniquePorts, IsNotAllowedPort)
         IN  IF Len(uniquePorts) = 0 THEN Throw(MsgPortRequired)
             ELSE IF Len(invalid) > 0 THEN Throw(MsgAllowedList)
             ELSE IF Len(uniquePorts) > MAX_PORTS THEN Throw(MsgTooManyPorts)
             ELSE Return(uniquePorts)

validatePorts(ports) ==
    IF ports.t # "array" THEN Throw(MsgPortsArray)
    ELSE LET uniquePorts == dedupePorts([i \in 1..Len(ports.a) |-> Number(ports.a[i])])
             invalid == SelectSeq(uniquePorts, IsNotAllowedPort)
         IN  IF Len(uniquePorts) = 0 THEN Throw(MsgPortRequired)
             ELSE IF Len(uniquePorts) > MAX_PORTS THEN Throw(MsgTooManyPorts)
             ELSE IF Len(invalid) > 0 THEN Throw(MsgAllowedList)
             ELSE Return(uniquePorts)

(***************************************************************************)
(* Inputs of the port validator                                            *)
(***************************************************************************)
MaxPortsLen == 3

\* Members of a ports array: allowed and other numbers, numeric and other
\* strings, null, a nested array.
PortElems ==
    { Num(80), Num(443), Num(22), Num(9999), Num(0), Num(-80),
      Str(<<"8", "0">>), Str(<<" ", "4", "4", "3">>), Str(<<"a", "b", "c">>), Str(<<>>),
      Null, Bool(TRUE), Arr(<<Num(80)>>), Obj }

SeqsUpTo(S, n) == UNION {[1..k -> S] : k \in 0..n}

\* n consecutive numbers from base on, as the test 'rejects too many ports'
\* builds them.
RangeList(base, n) == [i \in 1..n |-> Num(base + i - 1)]
NumList(q) == [i \in 1..Len(q) |-> Num(q[i])]

LongPortLists ==
    {RangeList(21, n) : n \in {19, 20, 21, 25}}
        \cup {RangeList(9000, n) : n \in {20, 21}}
        \cup { NumList(ALLOWED_PORTS),
               NumList(ALLOWED_PORTS \o ALLOWED_PORTS),
               NumList(ALLOWED_PORTS \o <<9999>>),
               NumList(<<9999>> \o ALLOWED_PORTS \o <<80>>) }

PortsInputs ==
    {Arr(a) : a \in SeqsUpTo(PortElems, MaxPortsLen) \cup LongPortLists}
        \cup {Undefined, Null, Obj, Num(80), Str(<<"8", "0">>)}

(***************************************************************************)
(* SpecPorts: validatePorts applied to one input, then to its own result   *)
(***************************************************************************)
InitPorts ==
    /\ call \in {[fn |-> "validatePorts", in |-> i] : i \in PortsInputs}
    /\ ret = Pending
    /\ ServerStart

CallValidatePorts ==
    /\ call.fn = "validatePorts"
    /\ ret = Pending
    /\ ret' = validatePorts(call.in)
    /\ UNCHANGED <<call, serverVars>>

\* validatePorts(validatePorts(ports)): the array a first call returned is
\* passed to a second call.
CallValidatePortsAgain ==
    /\ call.fn = "validatePorts"
    /\ ret.t = "return"
    /\ call' = [fn |-> "validatePortsAgain", in |-> call.in, first |-> ret]
    /\ ret' = validatePorts(Arr(ret.value))
    /\ UNCHANGED serverVars

NextPorts == CallValidatePorts \/ CallValidatePortsAgain

SpecPorts == InitPorts /\ [][NextPorts]_vars

\* The members of an array input after numeric coercion.
Coerced(ports) == [i \in 1..Len(ports.a) |-> Number(ports.a[i])]

\* The first occurrences of a sequence, by position: the members at the
\* positions no earlier position holds the same value at, in order.
FirstOccurrences(q) ==
    LET keep == {i \in 1..Len(q) : \A j \in 1..(i - 1) : q[j] # q[i]}
        nth(k) == CHOOSE i \in keep : Cardinality({j \in keep : j <= i}) = k
    IN  [k \in 1..Cardinality(keep) |-> q[nth(k)]]

\* C9: whenever validatePorts returns, its result is the (numerically
\* coerced) input with duplicates removed keeping first occurrences in
\* input order, holds no duplicate, has 1 to 20 members, all of them in
\* ALLOWED_PORTS.
C9_ValidatedPortSet ==
    (call.fn = "validatePorts" /\ ret.t = "return") =>
        LET out == ret.value
        IN  /\ call.in.t = "array"
            /\ out = FirstOccurrences(Coerced(call.in))
            /\ \A i, j \in 1..Len(out) : i # j => out[i] # out[j]
            /\ Len(out) >= 1 /\ Len(out) <= MAX_PORTS
            /\ \A i \in 1..Len(out) :
                   out[i].t = "number" /\ out[i].v \in Range(ALLOWED_PORTS)

\* validatePorts([80, 443, 80]) has returned [80, 443].
C9_Witness ==
    /\ call.fn = "validatePorts"
    /\ call.in = Arr(<<Num(80), Num(443), Num(80)>>)
    /\ ret = Return(<<Num(80), Num(443)>>)

\* An input validatePorts has to refuse: not an array, empty, or with a
\* member that after coercion is not in ALLOWED_PORTS.
MustRefusePorts(ports) ==
    \/ ports.t # "array"
    \/ Len(ports.a) = 0
    \/ \E i \in 1..Len(ports.a) :
           LET n == Number(ports.a[i])
           IN  n.t # "number" \/ n.v \notin Range(ALLOWED_PORTS)

\* C10: validatePorts throws for every input that is not an array, is
\* empty, or holds a member outside ALLOWED_PORTS after coercion; such a
\* member is never dropped to give a successful result.
C10_InvalidPortsRefused ==
    (call.fn = "validatePorts" /\ ret # Pending /\ MustRefusePorts(call.in)) =>
        ret.t = "throw"

\* validatePorts([80, 9999]) has thrown 'Ports must be in the allowed list'.
C10_Witness ==
    /\ call.fn = "validatePorts"
    /\ call.in = Arr(<<Num(80), Num(9999)>>)
    /\ ret = Throw(MsgAllowedList)

\* The number of distinct values among the coerced members of an array.
DistinctCount(ports) ==
    Cardinality({Number(ports.a[i]) : i \in 1..Len(ports.a)})

\* C11: every array whose deduplicated (coerced) members number more than
\* MAX_PORTS makes validatePorts throw 'Cannot scan more than 20 ports',
\* also when some or all of the members are outside ALLOWED_PORTS: the size
\* check comes before the allow-list check.
C11_SizeCheckFirst ==
    (/\ call.fn = "validatePorts"
     /\ ret # Pending
     /\ call.in.t = "array"
     /\ DistinctCount(call.in) > MAX_PORTS) =>
        ret = Throw(MsgTooManyPorts)

\* validatePorts of the 21 numbers 9000..9020, none of them allowed, has
\* thrown the size error.
C11_Witness ==
    /\ call.fn = "validatePorts"
    /\ call.in = Arr(RangeList(9000, 21))
    /\ ret = Throw(MsgTooManyPorts)

\* C12: validatePorts is idempotent on its own output: applied to the array
\* a successful call returned, it returns that same array.
C12_Idempotent ==
    (call.fn = "validatePortsAgain") => ret = call.first

\* validatePorts([80, 443, 80]) returned [80, 443], and validatePorts of
\* that returned [80, 443] again.
C12_Witness ==
    /\ call.fn = "validatePortsAgain"
    /\ call.in = Arr(<<Num(80), Num(443), Num(80)>>)
    /\ call.first = Return(<<Num(80), Num(443)>>)
    /\ ret = Return(<<Num(80), Num(443)>>)

(***************************************************************************)
(* TargetResolver: server.js:44-47 and 71-94                               *)
(***************************************************************************)
\* 'Target is required'
MsgTargetRequired ==
    <<"T", "a", "r", "g", "e", "t", " ", "i", "s", " ", "r", "e", "q", "u",
      "i", "r", "e", "d">>

\* 'Localhost is not allowed'
MsgLocalhost ==
    <<"L", "o", "c", "a", "l", "h", "o", "s", "t", " ", "i", "s", " ", "n",
      "o", "t", " ", "a", "l", "l", "o", "w", "e", "d">>

\* 'Private IPs are not allowed'
MsgPrivateIp ==
    <<"P", "r", "i", "v", "a", "t", "e", " ", "I", "P", "s", " ", "a", "r",
      "e", " ", "n", "o", "t", " ", "a", "l", "l", "o", "w", "e", "d">>

\* 'Invalid domain name'
MsgInvalidDomain ==
    <<"I", "n", "v", "a", "l", "i", "d", " ", "d", "o", "m", "a", "i", "n",
      " ", "n", "a", "m", "e">>

\* 'Target resolves to a private IP'
MsgResolvesPrivate ==
    <<"T", "a", "r", "g", "e", "t", " ", "r", "e", "s", "o", "l", "v", "e",
      "s", " ", "t", "o", " ", "a", " ", "p", "r", "i", "v", "a", "t", "e",
      " ", "I", "P">>

\* 'localhost'
TxtLocalhost ==
    <<"l", "o", "c", "a", "l", "h", "o", "s", "t">>

\* 'getaddrinfo '
TxtGetaddrinfo ==
    <<"g", "e", "t", "a", "d", "d", "r", "i", "n", "f", "o", " ">>

\* One label of the domain pattern: (?!-)[A-Za-z0-9-]{1,63}(?<!-)
IsDomainLabel(l) ==
    /\ Len(l) \in 1..63
    /\ \A i \in 1..Len(l) : IsLetter(l[i]) \/ IsDigit(l[i]) \/ l[i] = "-"
    /\ l[1] # "-"
    /\ l[Len(l)] # "-"

\* domainRegex.test(target): two or more labels joined by dots.
isValidDomain(target) ==
    LET labels == split(target, ".")
    IN  Len(labels) >= 2 /\ \A i \in 1..Len(labels) : IsDomainLabel(labels[i])

\* What dns.lookup(hostname, {all: true}) settles with: the list of entry
\* addresses, or a rejection with a system error code.
DnsAnswers(list) == [t |-> "addresses", list |-> list]
DnsError(code) == [t |-> "error", code |-> code]

\* The message of the error dns.lookup rejects with:
\* `${syscall} ${code} ${hostname}`.
DnsErrorMessage(code, hostname) == TxtGetaddrinfo \o code \o <<" ">> \o hostname

Await(hostname) == [t |-> "await", hostname |-> hostname]
Resolved(hostname, address) == Return([hostname |-> hostname, address |-> address])

\* A plausible slip: the comparison with 'localhost' without toLowerCase.
resolveTargetSyncCaseSensitive(target) ==
    IF target.t # "string" \/ target.s = <<>> THEN Throw(MsgTargetRequired)
    ELSE LET trimmed == trim(target.s)
         IN  IF trimmed = TxtLocalhost THEN Throw(MsgLocalhost)
             ELSE IF isIP(trimmed) # 0
                  THEN IF isPrivateIp(Str(trimmed)) THEN Throw(MsgPrivateIp)
                       ELSE Resolved(trimmed, trimmed)
             ELSE IF ~isValidDomain(trimmed) THEN Throw(MsgInvalidDomain)
             ELSE Await(trimmed)

\* resolveTarget up to its await (server.js:72-88): it throws, returns, or
\* waits for dns.lookup(trimmed).
resolveTargetSync(target) ==
    IF target.t # "string" \/ target.s = <<>> THEN Throw(MsgTargetRequired)
    ELSE LET trimmed == trim(target.s)
         IN  IF toLowerCase(trimmed) = TxtLocalhost THEN Throw(MsgLocalhost)
             ELSE IF isIP(trimmed) # 0
                  THEN IF isPrivateIp(Str(trimmed)) THEN Throw(MsgPrivateIp)
                       ELSE Resolved(trimmed, trimmed)
             ELSE IF ~isValidDomain(trimmed) THEN Throw(MsgInvalidDomain)
             ELSE Await(trimmed)

\* A plausible slip: the last public address is taken instead of the first.
FindPublicLast(addresses) ==
    LET hits == {i \in 1..Len(addresses) : ~isPrivateIp(Str(addresses[i]))}
    IN  IF hits = {} THEN 0 ELSE CHOOSE i \in hits : \A j \in hits : j <= i

\* addresses.find((entry) => !isPrivateIp(entry.address)): 0 for undefined.
FindPublic(addresses) ==
    LET hits == {i \in 1..Len(addresses) : ~isPrivateIp(Str(addresses[i]))}
    IN  IF hits = {} THEN 0 ELSE Min(hits)

\* resolveTarget after its await (server.js:88-93), given what the lookup
\* settled with.
resolveTargetAfterLookup(trimmed, outcome) ==
    IF outcome.t = "error" THEN Throw(DnsErrorMessage(outcome.code, trimmed))
    ELSE LET k == FindPublic(outcome.list)
         IN  IF k = 0 THEN Throw(MsgResolvesPrivate)
             ELSE Resolved(trimmed, outcome.list[k])

(***************************************************************************)
(* Inputs of the target resolver                                           *)
(***************************************************************************)
MaxAnswers == 2

\* Further target strings: domains, spellings of localhost, padded
\* addresses, malformed names.
TargetTexts ==
    { <<"e", "x", "a", "m", "p", "l", "e", ".", "c", "o", "m">>,
      <<"r", "a", "t", "e", ".", "i", "o">>,
      <<"a", ".", "b", "-", "c", ".", "i", "o">>,
      <<"L", "o", "c", "a", "l", "H", "o", "s", "t">>,
      <<"L", "O", "C", "A", "L", "H", "O", "S", "T">>,
      <<"\t", "L", "o", "c", "a", "l", "h", "o", "s", "T", "\n">>,
      <<" ", "e", "x", "a", "m", "p", "l", "e", ".", "c", "o", "m", " ">>,
      <<" ", "l", "o", "c", "a", "l", "h", "o", "s", "t", " ">>,
      <<"l", "o", "c", "a", "l", "h", "o", "s", "t", ".">>,
      <<"-", "a", ".", "c", "o", "m">>,
      <<"a", "-", ".", "c", "o", "m">>,
      <<"a">>,
      <<"a", ".", ".", "b">>,
      <<"a", ".", "i", "o", ".">>,
      <<" ", "8", ".", "8", ".", "8", ".", "8", " ">>,
      <<"\t", "1", "0", ".", "0", ".", "0", ".", "1">>,
      <<"a", "_", "b", ".", "c", "o", "m">>,
      <<" ", " ", " ">>,
      <<"x", ".", "y", ".", "z", ".", "i", "o">>,
      <<"2", "2", "4", ".", "0", ".", "0", ".", "1", " ">> }

\* A domain whose first label has n characters.
LongLabelDomain(n) == [i \in 1..n |-> "a"] \o <<".", "i", "o">>

TargetInputs ==
    {i.arg : i \in AddressInputs}
        \cup {Str(s) : s \in TargetTexts}
        \cup {Str(LongLabelDomain(63)), Str(LongLabelDomain(64))}
        \cup {Null, Num(5), Obj}

\* Addresses a resolver can answer with.
AnswerTexts ==
    { <<"8", ".", "8", ".", "8", ".", "8">>,
      <<"1", "0", ".", "0", ".", "0", ".", "1">>,
      <<"2", "2", "4", ".", "0", ".", "0", ".", "1">>,
      <<"2", "5", "5", ".", "2", "5", "5", ".", "2", "5", "5", ".", "2", "5", "5">>,
      <<":", ":", "1">>,
      <<":", ":">>,
      <<"f", "f", "0", "2", ":", ":", "1">>,
      <<"2", "0", "0", "1", ":", "4", "8", "6", "0", ":", "4", "8", "6", "0", ":", ":", "8", "8", "8", "8">> }

ENOTFOUND == <<"E", "N", "O", "T", "F", "O", "U", "N", "D">>
EAI_AGAIN == <<"E", "A", "I", "_", "A", "G", "A", "I", "N">>

DnsOutcomes ==
    {DnsAnswers(l) : l \in SeqsUpTo(AnswerTexts, MaxAnswers)}
        \cup {DnsError(ENOTFOUND), DnsError(EAI_AGAIN)}

NoLookup == [t |-> "none"]

(***************************************************************************)
(* SpecResolve: resolveTarget applied to one target, the resolver          *)
(* answering when it is asked                                              *)
(***************************************************************************)
InitResolve ==
    /\ call \in {[fn |-> "resolveTarget", in |-> i, dns |-> NoLookup] : i \in TargetInputs}
    /\ ret = Pending
    /\ ServerStart

CallResolveTarget ==
    /\ call.fn = "resolveTarget"
    /\ ret = Pending
    /\ ret' = resolveTargetSync(call.in)
    /\ UNCHANGED <<call, serverVars>>

LookupSettles ==
    /\ call.fn = "resolveTarget"
    /\ ret.t = "await"
    /\ \E outcome \in DnsOutcomes :
           /\ call' = [call EXCEPT !.dns = outcome]
           /\ ret' = resolveTargetAfterLookup(ret.hostname, outcome)
    /\ UNCHANGED serverVars

NextResolve == CallResolveTarget \/ LookupSettles

SpecResolve == InitResolve /\ [][NextResolve]_vars

\* h is s without its leading and trailing white space.
IsTrimOf(h, s) ==
    \E i \in 0..Len(s) :
        /\ i + Len(h) <= Len(s)
        /\ SubSeq(s, i + 1, i + Len(h)) = h
        /\ \A k \in 1..i : s[k] \in WhiteSpace
        /\ \A k \in (i + Len(h) + 1)..Len(s) : s[k] \in WhiteSpace
        /\ h # <<>> => (h[1] \notin WhiteSpace /\ h[Len(h)] \notin WhiteSpace)

\* s spells localhost, each letter in either case, with white space
\* allowed around it.
IsLocalhostSpelling(s) ==
    \E i \in 0..Len(s) :
        /\ i + Len(TxtLocalhost) <= Len(s)
        /\ IsTrimOf(SubSeq(s, i + 1, i + Len(TxtLocalhost)), s)
        /\ \A k \in 1..Len(TxtLocalhost) :
               \E n \in DOMAIN LowerChars :
                   /\ LowerChars[n] = TxtLocalhost[k]
                   /\ s[i + k] \in {LowerChars[n], UpperChars[n]}

\* C17: for a target that is not a string or is empty resolveTarget throws
\* 'Target is required', and for a target that spells localhost in any
\* case, white space around it allowed, it throws 'Localhost is not
\* allowed'; in both cases no DNS lookup is made.
C17_LocalhostAndEmptyRefused ==
    (call.fn = "resolveTarget" /\ ret # Pending) =>
        /\ (call.in.t # "string" \/ call.in = Str(<<>>)) =>
               (ret = Throw(MsgTargetRequired) /\ call.dns = NoLookup)
        /\ (call.in.t = "string" /\ IsLocalhostSpelling(call.in.s)) =>
               (ret = Throw(MsgLocalhost) /\ call.dns = NoLookup)

\* resolveTarget('\tLocalhosT\n') has thrown 'Localhost is not allowed'
\* with no lookup made.
C17_Witness ==
    /\ call.fn = "resolveTarget"
    /\ call.in = Str(<<"\t", "L", "o", "c", "a", "l", "h", "o", "s", "T", "\n">>)
    /\ call.dns = NoLookup
    /\ ret = Throw(MsgLocalhost)

\* C18: when the lookup for a target settles with the answer list L, the
\* target is a valid domain with white space around it at most;
\* resolveTarget returns that domain as hostname and as address the first
\* member of L that isPrivateIp does not classify private, and it throws
\* 'Target resolves to a private IP' exactly when L has no such member
\* (L empty or all private).
C18_FirstPublicAnswer ==
    (call.fn = "resolveTarget" /\ call.dns.t = "addresses") =>
        LET L == call.dns.list
            public == {i \in 1..Len(L) : ~isPrivateIp(Str(L[i]))}
        IN  /\ call.in.t = "string"
            /\ IF public = {}
               THEN ret = Throw(MsgResolvesPrivate)
               ELSE /\ ret.t = "return"
                    /\ IsTrimOf(ret.value.hostname, call.in.s)
                    /\ isValidDomain(ret.value.hostname)
                    /\ \E k \in public :
                           /\ ret.value.address = L[k]
                           /\ \A j \in 1..(k - 1) : j \notin public

\* resolveTarget(' example.com ') with the answers 10.0.0.1, 8.8.8.8 has
\* returned hostname 'example.com' and address 8.8.8.8.
C18_Witness ==
    /\ call.fn = "resolveTarget"
    /\ call.in = Str(<<" ", "e", "x", "a", "m", "p", "l", "e", ".", "c", "o", "m", " ">>)
    /\ call.dns = DnsAnswers(<<<<"1", "0", ".", "0", ".", "0", ".", "1">>,
                               <<"8", ".", "8", ".", "8", ".", "8">>>>)
    /\ ret = Resolved(<<"e", "x", "a", "m", "p", "l", "e", ".", "c", "o", "m">>,
                      <<"8", ".", "8", ".", "8", ".", "8">>)

(***************************************************************************)
(* What an address literal denotes                                         *)
(***************************************************************************)
HexChars == <<"0", "1", "2", "3", "4", "5", "6", "7", "8", "9",
              "a", "b", "c", "d", "e", "f">>
HexVal(c) == (CHOOSE i \in DOMAIN HexChars : HexChars[i] = LowerChar(c)) - 1

RECURSIVE HexValue(_)
HexValue(s) ==
    IF s = <<>> THEN 0
    ELSE 16 * HexValue(SubSeq(s, 1, Len(s) - 1)) + HexVal(s[Len(s)])

\* The four octets of an IPv4 literal.
V4Octets(s) == LET parts == split(s, ".") IN [i \in 1..4 |-> DecimalValue(parts[i])]

\* The 16-bit groups of a colon-separated run of an IPv6 literal.
RunGroups(s) ==
    IF s = <<>> THEN <<>>
    ELSE LET parts == split(s, ":")
             n == Len(parts)
         IN  IF isIPv4(parts[n])
             THEN LET o == V4Octets(parts[n])
                  IN  [i \in 1..(n - 1) |-> HexValue(parts[i])]
                          \o <<o[1] * 256 + o[2], o[3] * 256 + o[4]>>
             ELSE [i \in 1..n |-> HexValue(parts[i])]

\* The eight 16-bit groups of an IPv6 literal.
V6Groups(s) ==
    LET pct  == IndexOf(s, "%")
        base == IF pct = 0 THEN s ELSE SubSeq(s, 1, pct - 1)
        gap  == GapIndex(base)
        left == RunGroups(SubSeq(base, 1, gap - 1))
        right == RunGroups(SubSeq(base, gap + 2, Len(base)))
    IN  IF gap = 0 THEN RunGroups(base)
        ELSE left \o [i \in 1..(8 - Len(left) - Len(right)) |-> 0] \o right

\* Private, loopback, link-local, unique-local or unspecified.
NonPublicV4(o) ==
    \/ o[1] = 10
    \/ (o[1] = 172 /\ o[2] \in 16..31)
    \/ (o[1] = 192 /\ o[2] = 168)
    \/ o[1] = 127
    \/ (o[1] = 169 /\ o[2] = 254)
    \/ o = <<0, 0, 0, 0>>

NonPublicV6(g) ==
    \/ g = <<0, 0, 0, 0, 0, 0, 0, 0>>
    \/ g = <<0, 0, 0, 0, 0, 0, 0, 1>>
    \/ g[1] \in 65152..65215
    \/ g[1] \in 64512..65023

IsPublicLiteral(s) ==
    CASE isIPv4(s) -> ~NonPublicV4(V4Octets(s))
      [] isIPv6(s) -> ~NonPublicV6(V6Groups(s))
      [] OTHER -> FALSE

\* Multicast (224.0.0.0/4, ff00::/8) or the limited broadcast address.
IsMulticastOrBroadcast(s) ==
    CASE isIPv4(s) -> V4Octets(s)[1] \in 224..239 \/ V4Octets(s) = <<255, 255, 255, 255>>
      [] isIPv6(s) -> V6Groups(s)[1] >= 65280
      [] OTHER -> FALSE

\* C2: whenever resolveTarget succeeds, the address it returns is a
\* syntactically valid IPv4 or IPv6 literal that is not private, loopback,
\* link-local, unique-local or unspecified.
C2_ResolvedAddressIsPublic ==
    (call.fn = "resolveTarget" /\ ret.t = "return") =>
        IsPublicLiteral(ret.value.address)

\* The target of the call is a multicast or broadcast literal, or a domain
\* the resolver answered with such addresses only.
OnlyMulticastOrBroadcast ==
    \/ call.in.t = "string" /\ IsMulticastOrBroadcast(trim(call.in.s))
    \/ /\ call.dns.t = "addresses"
       /\ call.dns.list # <<>>
       /\ \A i \in 1..Len(call.dns.list) : IsMulticastOrBroadcast(call.dns.list[i])

\* C3: a target that is, or resolves only to, a multicast or broadcast
\* address is blocked: resolveTarget fails.
C3_MulticastBroadcastBlocked ==
    (call.fn = "resolveTarget" /\ ret.t \in {"return", "throw"}
        /\ OnlyMulticastOrBroadcast) => ret.t = "throw"

(***************************************************************************)
(* RateLimiter: server.js:10-12 and 96-104                                 *)
(***************************************************************************)
\* rateLimitMap.get(clientId) || 0
LastAdmitted(map, clientId) ==
    IF clientId \in DOMAIN map /\ map[clientId] # 0 THEN map[clientId] ELSE 0

\* A plausible slip: one time of last admission kept for all clients.
MapSetEvery(map, clientId, time) ==
    [c \in DOMAIN map \cup {clientId} |-> time]

\* rateLimitMap.set(clientId, now)
MapSet(map, clientId, time) ==
    [c \in DOMAIN map \cup {clientId} |-> IF c = clientId THEN time ELSE map[c]]

\* A plausible slip: the admission is not recorded.
enforceRateLimitNoRecord(map, clientId, time) ==
    IF time - LastAdmitted(map, clientId) < RATE_LIMIT_WINDOW_MS
    THEN [admit |-> FALSE, map |-> map]
    ELSE [admit |-> TRUE, map |-> map]

\* A plausible slip: an admission exactly one window after the last one is
\* refused.
enforceRateLimitStrict(map, clientId, time) ==
    IF time - LastAdmitted(map, clientId) <= RATE_LIMIT_WINDOW_MS
    THEN [admit |-> FALSE, map |-> map]
    ELSE [admit |-> TRUE, map |-> MapSet(map, clientId, time)]

\* enforceRateLimit(clientId) when Date.now() is time: what it returns and
\* the map it leaves.
enforceRateLimit(map, clientId, time) ==
    IF time - LastAdmitted(map, clientId) < RATE_LIMIT_WINDOW_MS
    THEN [admit |-> FALSE, map |-> map]
    ELSE [admit |-> TRUE, map |-> MapSet(map, clientId, time)]

(***************************************************************************)
(* ProbeEngine: server.js:9 and 106-142                                    *)
(***************************************************************************)
MIN_TIMEOUT_MS == 1000

Max(a, b) == IF a >= b THEN a ELSE b

\* A plausible slip: the floor is left out and the caller's timeoutMs is
\* armed as it is.
NewSocketNoFloor(host, port, timeoutMs, time) ==
    [ host |-> host, port |-> port, start |-> time,
      timeout |-> IF timeoutMs.t = "undefined" THEN MIN_TIMEOUT_MS ELSE timeoutMs.v ]

\* performPortCheck(host, port, timeoutMs) up to socket.connect: the socket
\* it creates, with the start time and the timeout armed on it.  timeoutMs
\* is Undefined when the caller leaves it out.
NewSocket(host, port, timeoutMs, time) ==
    [ host |-> host, port |-> port, start |-> time,
      timeout |-> Max(IF timeoutMs.t = "undefined" THEN MIN_TIMEOUT_MS ELSE timeoutMs.v,
                      MIN_TIMEOUT_MS) ]

\* The results the three socket handlers resolve the probe with.
OnConnect(sock, time) ==
    [port |-> sock.port, status |-> "open", latency_ms |-> time - sock.start]
\* A plausible slip: a result without a measured latency carries a zero.
OnTimeoutZeroLatency(sock) ==
    [port |-> sock.port, status |-> "filtered", latency_ms |-> 0]
OnTimeout(sock) == [port |-> sock.port, status |-> "filtered"]
OnError(sock, code) ==
    IF code = "ECONNREFUSED"
    THEN [port |-> sock.port, status |-> "closed"]
    ELSE [port |-> sock.port, status |-> "filtered"]

\* Error codes a failing connect reports.
ErrorCodes == {"ECONNREFUSED", "EHOSTUNREACH"}

\* One performPortCheck call in flight: its socket, the promise it returned
\* (Pending until resolved), the flag resolved, how often socket.destroy()
\* ran, the handlers still registered (each is registered with once), and
\* the first event that fired.
NoEvent == [ev |-> "none", code |-> "", at |-> 0]
NewProbe(host, port, timeoutMs, time) ==
    [ t |-> "probe", sock |-> NewSocket(host, port, timeoutMs, time),
      promise |-> Pending, resolved |-> FALSE, destroyed |-> 0,
      handlers |-> {"connect", "timeout", "error"}, first |-> NoEvent ]

\* resolve(value) of the promise: only the first call settles it.
resolve(p, value) ==
    IF p.promise = Pending THEN [p EXCEPT !.promise = value] ELSE p

\* A plausible slip: closeSocket without the resolved guard.
closeSocketUnguarded(p) ==
    [p EXCEPT !.destroyed = @ + 1, !.resolved = TRUE]

closeSocket(p) ==
    IF ~p.resolved
    THEN [p EXCEPT !.destroyed = @ + 1, !.resolved = TRUE]
    ELSE p

\* The probe after the named event has been emitted at time: its handler is
\* taken off (once), resolves and calls closeSocket.
Emitted(p, ev, code, time) ==
    [p EXCEPT !.handlers = @ \ {ev},
              !.first = IF @.ev = "none"
                        THEN [ev |-> ev, code |-> code, at |-> time] ELSE @]
ConnectHandler(p, time) ==
    closeSocket(resolve(Emitted(p, "connect", "", time), OnConnect(p.sock, time)))
TimeoutHandler(p, time) ==
    closeSocket(resolve(Emitted(p, "timeout", "", time), OnTimeout(p.sock)))
ErrorHandler(p, code, time) ==
    closeSocket(resolve(Emitted(p, "error", code, time), OnError(p.sock, code)))

(***************************************************************************)
(* ScanCoordinator: handleScan, server.js:144-184                          *)
(***************************************************************************)
\* 'Too many requests: wait 10 seconds between scans.'
MsgTooManyRequests ==
    <<"T", "o", "o", " ", "m", "a", "n", "y", " ", "r", "e", "q", "u", "e",
      "s", "t", "s", ":", " ", "w", "a", "i", "t", " ", "1", "0", " ", "s",
      "e", "c", "o", "n", "d", "s", " ", "b", "e", "t", "w", "e", "e", "n",
      " ", "s", "c", "a", "n", "s", ".">>

\* 'Unexpected end of JSON input'
MsgJsonSyntax ==
    <<"U", "n", "e", "x", "p", "e", "c", "t", "e", "d", " ", "e", "n", "d",
      " ", "o", "f", " ", "J", "S", "O", "N", " ", "i", "n", "p", "u", "t">>

\* 'Cannot destructure property 'target' of 'payload' as it is null.'
MsgDestructure ==
    <<"C", "a", "n", "n", "o", "t", " ", "d", "e", "s", "t", "r", "u", "c",
      "t", "u", "r", "e", " ", "p", "r", "o", "p", "e", "r", "t", "y", " ",
      "'", "t", "a", "r", "g", "e", "t", "'", " ", "o", "f", " ", "'", "p",
      "a", "y", "l", "o", "a", "d", "'", " ", "a", "s", " ", "i", "t", " ",
      "i", "s", " ", "n", "u", "l", "l", ".">>

\* 'rate'
TxtRate ==
    <<"r", "a", "t", "e">>

\* request.socket.remoteAddress || 'unknown'
ClientIdOf(remote) == IF remote.t = "string" THEN remote.s ELSE "unknown"

\* JSON.parse(body || '{}'): a body that is no JSON text throws, an empty
\* body is the empty object, any other body is the value it denotes.
JsonParse(body) ==
    CASE body.t = "invalid" -> Throw(MsgJsonSyntax)
      [] body.t = "empty" -> Return([t |-> "object", target |-> Undefined, ports |-> Undefined])
      [] OTHER -> Return(body.value)

\* const { target, ports } = payload
Destructure(payload) ==
    IF payload.t \in {"null", "undefined"} THEN Throw(MsgDestructure)
    ELSE IF payload.t = "object" THEN Return([target |-> payload.target, ports |-> payload.ports])
    ELSE Return([target |-> Undefined, ports |-> Undefined])

\* response.writeHead(status, ...); response.end(JSON.stringify(content))
Respond(q, status, content) ==
    [q EXCEPT !.pc = "done", !.sock = Undefined,
              !.responses = Append(@, [status |-> status, content |-> content])]

\* The catch block of handleScan (server.js:178-182).
Catch(q, message) ==
    Respond(q, IF includes(message, TxtRate) THEN 429 ELSE 400, [error |-> message])

\* One turn of the probe loop (server.js:164-165): performPortCheck on the
\* next port of validatedPorts, with the default timeout.
StartProbe(q, time) ==
    LET port == q.ports[Len(q.results) + 1].v
        sock == NewSocket(q.address.s, port, Undefined, time)
    IN  [q EXCEPT !.pc = "probe", !.sock = sock,
                  !.probes = Append(@, [host |-> sock.host, port |-> sock.port,
                                        timeout |-> sock.timeout])]

\* A plausible slip: the result is put at the front (results.unshift).
AfterProbeUnshift(q, result, time) ==
    LET q1 == [q EXCEPT !.results = <<result>> \o @]
    IN  IF Len(q1.results) < Len(q1.ports) THEN StartProbe(q1, time)
        ELSE Respond(q1, 200, [target |-> q1.hostname.s, ip |-> q1.address.s,
                               results |-> q1.results, timestamp |-> time])

\* A plausible slip: a probe that did not connect ends the loop, and the
\* response holds the results so far.
AfterProbeBreak(q, result, time) ==
    LET q1 == [q EXCEPT !.results = Append(@, result)]
    IN  IF Len(q1.results) < Len(q1.ports) /\ result.status = "open"
        THEN StartProbe(q1, time)
        ELSE Respond(q1, 200, [target |-> q1.hostname.s, ip |-> q1.address.s,
                               results |-> q1.results, timestamp |-> time])

\* results.push(result), then the next turn of the loop or the response
\* (server.js:166-177).
AfterProbe(q, result, time) ==
    LET q1 == [q EXCEPT !.results = Append(@, result)]
    IN  IF Len(q1.results) < Len(q1.ports) THEN StartProbe(q1, time)
        ELSE Respond(q1, 200, [target |-> q1.hostname.s, ip |-> q1.address.s,
                               results |-> q1.results, timestamp |-> time])

\* What follows `await resolveTarget(target)` (server.js:161-165): the
\* rejection goes to the catch block, the resolved target to the loop.
AfterResolve(q, outcome, time) ==
    IF outcome.t = "throw" THEN Catch(q, outcome.message)
    ELSE StartProbe([q EXCEPT !.hostname = Str(outcome.value.hostname),
                              !.address = Str(outcome.value.address)], time)

\* server.js:158-161, after admission: parse, destructure, validate the
\* ports, then resolve the target up to its await.
HandleAdmitted(q, time) ==
    LET parsed == JsonParse(q.body)
        fields == Destructure(parsed.value)
        ports  == validatePorts(fields.value.ports)
        target == resolveTargetSync(fields.value.target)
    IN  IF parsed.t = "throw" THEN Catch(q, parsed.message)
        ELSE IF fields.t = "throw" THEN Catch(q, fields.message)
        ELSE IF ports.t = "throw" THEN Catch(q, ports.message)
        ELSE LET q1 == [q EXCEPT !.ports = ports.value]
             IN  IF target.t = "await"
                 THEN [q1 EXCEPT !.pc = "dns", !.hostname = Str(target.hostname)]
                 ELSE AfterResolve(q1, target, time)

\* A plausible slip: a request that was refused admission is handled all
\* the same.
AfterAdmissionNoGate(q, admit, time) ==
    HandleAdmitted([q EXCEPT !.admitted = admit], time)

\* A plausible slip: the return after the 429 response is missing, and the
\* refused request is handled on.
AfterAdmissionNoReturn(q, admit, time) ==
    IF ~admit
    THEN HandleAdmitted(Respond([q EXCEPT !.admitted = FALSE], 429,
                                [error |-> MsgTooManyRequests]), time)
    ELSE HandleAdmitted([q EXCEPT !.admitted = TRUE], time)

\* server.js:152-157: the 429 response when admission is refused.
AfterAdmission(q, admit, time) ==
    IF ~admit
    THEN Respond([q EXCEPT !.admitted = FALSE], 429, [error |-> MsgTooManyRequests])
    ELSE HandleAdmitted([q EXCEPT !.admitted = TRUE], time)

(***************************************************************************)
(* Requests of the model                                                   *)
(***************************************************************************)
MaxTicks == 2
\* The clock advances by half a rate-limit window: a request can come
\* 5000 ms (inside the window) and exactly 10000 ms (at its end) after an
\* admission, and a probe can be answered before and after its timeout.
TickSteps == {RATE_LIMIT_WINDOW_MS \div 2}

RemoteAddresses == {Str("198.51.100.7"), Undefined}

T_8_8_8_8 == <<"8", ".", "8", ".", "8", ".", "8">>
T_10_0_0_1 == <<"1", "0", ".", "0", ".", "0", ".", "1">>
T_rate_io == <<"r", "a", "t", "e", ".", "i", "o">>

PortsGood == Arr(<<Num(80), Num(443), Num(80)>>)
PortsBad == Arr(<<Num(80), Num(9999)>>)

ScanBody(target, ports) ==
    [t |-> "json", value |-> [t |-> "object", target |-> target, ports |-> ports]]

ScanBodies ==
    { ScanBody(Str(T_8_8_8_8), PortsGood), ScanBody(Str(T_10_0_0_1), PortsGood),
      ScanBody(Str(T_rate_io), PortsGood), ScanBody(Str(T_8_8_8_8), PortsBad),
      [t |-> "invalid"], [t |-> "empty"], [t |-> "json", value |-> Null] }

ScanDnsOutcomes ==
    { DnsAnswers(<<T_10_0_0_1, T_8_8_8_8>>), DnsAnswers(<<T_10_0_0_1>>),
      DnsError(ENOTFOUND) }

(***************************************************************************)
(* SpecProbe: one performPortCheck call and the events of its socket       *)
(***************************************************************************)
T_127_0_0_1 == <<"1", "2", "7", ".", "0", ".", "0", ".", "1">>

ProbeHosts == {T_8_8_8_8, T_127_0_0_1}
\* An allowed port and the ports the tests probe.
ProbePorts == {80, 65000, 81}
\* timeoutMs: left out, below, at and above the floor; 1500 and 1200 are
\* the values of the tests.
ProbeTimeouts ==
    {Undefined} \cup {Num(n) : n \in {-1, 0, 500, MIN_TIMEOUT_MS - 1, MIN_TIMEOUT_MS,
                                      MIN_TIMEOUT_MS + 1, 1200, 1500, 2 * MIN_TIMEOUT_MS}}
\* The clock advances by half the floor or by the floor.
ProbeTickSteps == {MIN_TIMEOUT_MS \div 2, MIN_TIMEOUT_MS}

InitProbe ==
    /\ call \in {[fn |-> "performPortCheck", host |-> h, port |-> p, timeoutMs |-> ms] :
                    h \in ProbeHosts, p \in ProbePorts, ms \in ProbeTimeouts}
    /\ ret = Pending
    /\ ServerStart

CallPerformPortCheck ==
    /\ call.fn = "performPortCheck"
    /\ ret = Pending
    /\ ret' = NewProbe(call.host, call.port, call.timeoutMs, now)
    /\ UNCHANGED <<call, serverVars>>

ProbeTick ==
    /\ call.fn = "performPortCheck"
    /\ ticks < MaxTicks
    /\ \E d \in ProbeTickSteps : now' = now + d
    /\ ticks' = ticks + 1
    /\ UNCHANGED <<call, ret, rateLimitMap, req>>

\* The socket emits 'connect'.
EmitConnect ==
    /\ ret.t = "probe"
    /\ "connect" \in ret.handlers
    /\ ret' = ConnectHandler(ret, now)
    /\ UNCHANGED <<call, serverVars>>

\* The socket emits 'timeout': the armed time has passed.
EmitTimeout ==
    /\ ret.t = "probe"
    /\ "timeout" \in ret.handlers
    /\ now - ret.sock.start >= ret.sock.timeout
    /\ ret' = TimeoutHandler(ret, now)
    /\ UNCHANGED <<call, serverVars>>

\* The socket emits 'error'.
EmitError ==
    /\ ret.t = "probe"
    /\ "error" \in ret.handlers
    /\ \E code \in ErrorCodes : ret' = ErrorHandler(ret, code, now)
    /\ UNCHANGED <<call, serverVars>>

NextProbe ==
    \/ CallPerformPortCheck
    \/ ProbeTick
    \/ EmitConnect
    \/ EmitTimeout
    \/ EmitError

SpecProbe == InitProbe /\ [][NextProbe]_vars

\* C13: every result performPortCheck produces has a status among open,
\* closed and filtered, and has a latency_ms field, a number that is not
\* negative, exactly when the status is open.
C13_PortResultShape ==
    (call.fn = "performPortCheck" /\ ret.t = "probe" /\ ret.promise # Pending) =>
        LET res == ret.promise
        IN  /\ res.port = call.port
            /\ res.status \in {"open", "closed", "filtered"}
            /\ ("latency_ms" \in DOMAIN res) <=> (res.status = "open")
            /\ res.status = "open" => res.latency_ms \in Nat
            /\ DOMAIN res \subseteq {"port", "status", "latency_ms"}

\* A probe answered by 'connect' 500 ms after its start has produced an
\* open result with that latency.
C13_Witness ==
    /\ call.fn = "performPortCheck"
    /\ ret.t = "probe"
    /\ ret.promise = [port |-> call.port, status |-> "open",
                      latency_ms |-> MIN_TIMEOUT_MS \div 2]

\* C14: the timeout armed on the socket is the larger of timeoutMs and
\* 1000 ms, and 1000 ms when timeoutMs is left out (as handleScan does), so
\* it is never below 1000 ms; and a 'timeout' event never ends a probe
\* earlier than 1000 ms after its start.
C14_TimeoutFloor ==
    (call.fn = "performPortCheck" /\ ret.t = "probe") =>
        /\ ret.sock.timeout =
               (IF call.timeoutMs.t = "undefined" THEN MIN_TIMEOUT_MS
                ELSE IF call.timeoutMs.v > MIN_TIMEOUT_MS THEN call.timeoutMs.v
                ELSE MIN_TIMEOUT_MS)
        /\ ret.sock.timeout >= MIN_TIMEOUT_MS
        /\ ret.first.ev = "timeout" => ret.first.at - ret.sock.start >= MIN_TIMEOUT_MS

\* performPortCheck(host, port, 500) has ended filtered by a 'timeout'
\* emitted 1000 ms after its start.
C14_Witness ==
    /\ call.fn = "performPortCheck"
    /\ call.timeoutMs = Num(MIN_TIMEOUT_MS \div 2)
    /\ ret.t = "probe"
    /\ ret.sock.timeout = MIN_TIMEOUT_MS
    /\ ret.first = [ev |-> "timeout", code |-> "", at |-> ret.sock.start + MIN_TIMEOUT_MS]
    /\ ret.promise = [port |-> call.port, status |-> "filtered"]

\* The result the claim assigns to a first event.
ResultOfFirst(p) ==
    CASE p.first.ev = "connect" ->
             [port |-> p.sock.port, status |-> "open", latency_ms |-> p.first.at - p.sock.start]
      [] p.first.ev = "timeout" -> [port |-> p.sock.port, status |-> "filtered"]
      [] p.first.ev = "error" /\ p.first.code = "ECONNREFUSED" ->
             [port |-> p.sock.port, status |-> "closed"]
      [] p.first.ev = "error" /\ p.first.code # "ECONNREFUSED" ->
             [port |-> p.sock.port, status |-> "filtered"]

\* C19: a performPortCheck call has no result before the first socket
\* event and from then on the one result that event fixes (connect: open
\* with latency; timeout: filtered; error ECONNREFUSED: closed; any other
\* error: filtered); the socket is destroyed exactly once, at the first
\* event; events emitted later change neither the result nor the socket,
\* and the promise is never left in another state than pending or resolved
\* with a result.
C19_FirstEventWins ==
    /\ [](ret.t = "probe" =>
            IF ret.first.ev = "none"
            THEN ret.promise = Pending /\ ret.destroyed = 0 /\ ~ret.resolved
            ELSE /\ ret.promise = ResultOfFirst(ret)
                 /\ ret.destroyed = 1
                 /\ ret.resolved)
    /\ [][(ret.t = "probe" /\ ret.promise # Pending) =>
              /\ ret'.promise = ret.promise
              /\ ret'.destroyed = ret.destroyed
              /\ ret'.first = ret.first]_vars

\* 'connect' fired first and 'error' and 'timeout' after it: the result is
\* still the open one and the socket was destroyed once.
C19_Witness ==
    /\ call.fn = "performPortCheck"
    /\ ret.t = "probe"
    /\ ret.first.ev = "connect"
    /\ ret.handlers = {}
    /\ ret.promise.status = "open"
    /\ ret.destroyed = 1

(***************************************************************************)
(* Spec: the server handling requests                                      *)
(***************************************************************************)
Init ==
    /\ call = [fn |-> "server"]
    /\ ret = Pending
    /\ ServerStart

\* The clock advances.
Tick ==
    /\ ticks < MaxTicks
    /\ \E d \in TickSteps : now' = now + d
    /\ ticks' = ticks + 1
    /\ UNCHANGED <<call, ret, rateLimitMap, req>>

\* A POST /scan request arrives (server.js:202-203) and handleScan
\* registers its handlers (server.js:144-149); the body is read.
Arrive(r) ==
    /\ req[r].pc = "idle"
    /\ \E remote \in RemoteAddresses, body \in ScanBodies :
           req' = [req EXCEPT ![r] = [@ EXCEPT !.pc = "body", !.remote = remote,
                                               !.body = body]]
    /\ UNCHANGED <<call, ret, now, ticks, rateLimitMap>>

\* A plausible slip: the body is parsed and validated first and the rate
\* limit consulted only when that did not fail, so a request answered 400
\* at once leaves no admission behind.
RequestEndValidateFirst(r) ==
    /\ req[r].pc = "body"
    /\ LET clientId == ClientIdOf(req[r].remote)
           rl == enforceRateLimit(rateLimitMap, clientId, now)
           q  == [req[r] EXCEPT !.clientId = clientId, !.at = now,
                      !.order = 1 + Cardinality({s \in Reqs : req[s].order > 0}),
                      !.during = {s \in Reqs : req[s].pc \in {"dns", "probe"}}]
           tried == HandleAdmitted(q, now)
       IN  IF tried.pc = "done"
           THEN /\ rateLimitMap' = rateLimitMap
                /\ req' = [req EXCEPT ![r] = tried]
           ELSE /\ rateLimitMap' = rl.map
                /\ req' = [req EXCEPT ![r] = AfterAdmission(q, rl.admit, now)]
    /\ UNCHANGED <<call, ret, now, ticks>>

\* The 'end' event of the request (server.js:149-167, up to the first
\* await that waits for the network).
RequestEnd(r) ==
    /\ req[r].pc = "body"
    /\ LET clientId == ClientIdOf(req[r].remote)
           rl == enforceRateLimit(rateLimitMap, clientId, now)
           q  == [req[r] EXCEPT !.clientId = clientId, !.at = now,
                      !.order = 1 + Cardinality({s \in Reqs : req[s].order > 0}),
                      !.during = {s \in Reqs : req[s].pc \in {"dns", "probe"}}]
       IN  /\ rateLimitMap' = rl.map
           /\ req' = [req EXCEPT ![r] = AfterAdmission(q, rl.admit, now)]
    /\ UNCHANGED <<call, ret, now, ticks>>

\* dns.lookup settles (server.js:88-93 and 161-165).
LookupDone(r) ==
    /\ req[r].pc = "dns"
    /\ \E outcome \in ScanDnsOutcomes :
           req' = [req EXCEPT ![r] =
                      AfterResolve([@ EXCEPT !.dns = outcome],
                                   resolveTargetAfterLookup(@.hostname.s, outcome), now)]
    /\ UNCHANGED <<call, ret, now, ticks, rateLimitMap>>

\* The socket of the current probe emits 'connect' (server.js:120-124).
SocketConnect(r) ==
    /\ req[r].pc = "probe"
    /\ req' = [req EXCEPT ![r] = AfterProbe(@, OnConnect(@.sock, now), now)]
    /\ UNCHANGED <<call, ret, now, ticks, rateLimitMap>>

\* ... emits 'timeout', once the armed time has passed (server.js:126-129).
SocketTimeout(r) ==
    /\ req[r].pc = "probe"
    /\ now - req[r].sock.start >= req[r].sock.timeout
    /\ req' = [req EXCEPT ![r] = AfterProbe(@, OnTimeout(@.sock), now)]
    /\ UNCHANGED <<call, ret, now, ticks, rateLimitMap>>

\* ... emits 'error' (server.js:131-138).
SocketError(r) ==
    /\ req[r].pc = "probe"
    /\ \E code \in ErrorCodes :
           req' = [req EXCEPT ![r] = AfterProbe(@, OnError(@.sock, code), now)]
    /\ UNCHANGED <<call, ret, now, ticks, rateLimitMap>>

Next ==
    \/ Tick
    \/ \E r \in Reqs : Arrive(r)
    \/ \E r \in Reqs : RequestEnd(r)
    \/ \E r \in Reqs : LookupDone(r)
    \/ \E r \in Reqs : SocketConnect(r)
    \/ \E r \in Reqs : SocketTimeout(r)
    \/ \E r \in Reqs : SocketError(r)

Spec == Init /\ [][Next]_vars

\* A socket that was told to connect emits 'connect', 'error' or, its
\* timeout being armed, 'timeout': the probe of a request does not stay
\* unanswered for ever.
SocketEvent(r) == SocketConnect(r) \/ SocketTimeout(r) \/ SocketError(r)

FairSpec == Spec /\ \A r \in Reqs : WF_vars(SocketEvent(r))

\* Besides, a request whose body was received emits 'end', and a DNS
\* lookup that was started settles.  These two conditions are weak
\* fairness of RequestEnd(r) and of LookupDone(r), with the enabling
\* condition of each action written as its guard (the action is enabled
\* exactly when the request is at "body", respectively at "dns").
LiveSpec ==
    /\ Spec
    /\ \A r \in Reqs :
           /\ ([]<>(req[r].pc # "body") \/ []<><<RequestEnd(r)>>_vars)
           /\ ([]<>(req[r].pc # "dns") \/ []<><<LookupDone(r)>>_vars)
           /\ WF_vars(SocketEvent(r))

(***************************************************************************)
(* Properties of the server                                                *)
(***************************************************************************)
\* The target and ports fields of a request's body, when it parses.
BodyParses(q) ==
    JsonParse(q.body).t = "return" /\ Destructure(JsonParse(q.body).value).t = "return"
BodyFields(q) == Destructure(JsonParse(q.body).value).value

\* resolveTarget(target) returned address for the request: at once for an
\* address literal, or from the answer its lookup settled with.
ResolvedTo(q, address) ==
    LET first == resolveTargetSync(BodyFields(q).target)
    IN  \/ first.t = "return" /\ first.value.address = address
        \/ /\ first.t = "await"
           /\ q.dns.t = "addresses"
           /\ LET rest == resolveTargetAfterLookup(first.hostname, q.dns)
              IN  rest.t = "return" /\ rest.value.address = address

\* C1: no probe socket is opened unless, earlier in the same request,
\* admission succeeded, validatePorts returned a port set and resolveTarget
\* returned an address; every probe uses that address and a port of that
\* set; a request answered with a failure has opened no socket.
C1_NoProbeBeforeValidation ==
    [][\A r \in Reqs :
          LET q == req'[r]
          IN  /\ Len(q.probes) > Len(req[r].probes) =>
                  /\ q.admitted
                  /\ BodyParses(q)
                  /\ validatePorts(BodyFields(q).ports) = Return(q.ports)
                  /\ q.address.t = "string"
                  /\ ResolvedTo(q, q.address.s)
                  /\ q.probes[Len(q.probes)].host = q.address.s
                  /\ \E k \in 1..Len(q.ports) :
                         q.ports[k] = Num(q.probes[Len(q.probes)].port)
              /\ \A i \in 1..Len(q.responses) :
                     q.responses[i].status # 200 => q.probes = <<>>]_vars

\* A request for a domain has opened a socket to the public address its
\* lookup answered with.
C1_Witness ==
    \E r \in Reqs :
        /\ req[r].pc = "probe"
        /\ req[r].dns = DnsAnswers(<<T_10_0_0_1, T_8_8_8_8>>)
        /\ req[r].probes = <<[host |-> T_8_8_8_8, port |-> 80, timeout |-> MIN_TIMEOUT_MS]>>

\* The last response of a request.
LastResponse(q) == q.responses[Len(q.responses)]

\* C15: a successful response holds one result per port of the validated
\* port set (the body's ports, coerced, first occurrences in order), the
\* i-th result being that of the i-th port, whatever the outcomes and the
\* times the probes took.
C15_ResultsInPortOrder ==
    [][\A r \in Reqs :
          LET q == req'[r]
          IN  (/\ Len(q.responses) > Len(req[r].responses)
               /\ LastResponse(q).status = 200) =>
                  LET out == LastResponse(q).content.results
                      set == FirstOccurrences(Coerced(BodyFields(q).ports))
                  IN  /\ Len(out) = Len(set)
                      /\ \A i \in 1..Len(out) : Num(out[i].port) = set[i]]_vars

\* A scan of [80, 443, 80] was answered 200 with port 80 filtered and port
\* 443 open, in that order.
C15_Witness ==
    \E r \in Reqs :
        /\ req[r].pc = "done"
        /\ req[r].responses # <<>>
        /\ LastResponse(req[r]).status = 200
        /\ LET out == LastResponse(req[r]).content.results
           IN  /\ Len(out) = 2
               /\ out[1] = [port |-> 80, status |-> "filtered"]
               /\ out[2].port = 443 /\ out[2].status = "open"

\* C16: in a scan that reached its probes, a probe that ends closed or
\* filtered is followed by the probe of the next port or, after the last
\* port, by the 200 response; the probes made are always the first ports
\* of the validated set, one connect attempt each, in order; and a scan
\* that is probing always comes to the 200 response with every port of the
\* set probed once.
C16_ProbesNeverAbort ==
    /\ [](\A r \in Reqs :
             LET q == req[r]
             IN  /\ Len(q.probes) <= Len(q.ports)
                 /\ \A i \in 1..Len(q.probes) : q.probes[i].port = q.ports[i].v
                 /\ q.pc = "probe" => Len(q.probes) = Len(q.results) + 1)
    /\ [][\A r \in Reqs :
             (req[r].pc = "probe" /\ req'[r] # req[r]) =>
                 LET q == req'[r]
                 IN  /\ Len(q.results) = Len(req[r].results) + 1
                     /\ IF Len(q.results) < Len(q.ports)
                        THEN /\ q.pc = "probe"
                             /\ Len(q.probes) = Len(req[r].probes) + 1
                        ELSE /\ q.pc = "done"
                             /\ LastResponse(q).status = 200
                             /\ q.probes = req[r].probes]_vars
    /\ \A r \in Reqs :
           (req[r].pc = "probe") ~>
               (/\ req[r].pc = "done"
                /\ LastResponse(req[r]).status = 200
                /\ Len(req[r].probes) = Len(req[r].ports)
                /\ Len(req[r].results) = Len(req[r].ports))

\* A scan whose first probe ended closed has probed its second port and
\* was answered 200.
C16_Witness ==
    \E r \in Reqs :
        /\ req[r].pc = "done"
        /\ req[r].responses # <<>>
        /\ LastResponse(req[r]).status = 200
        /\ req[r].results[1].status = "closed"
        /\ Len(req[r].probes) = 2
        /\ req[r].probes[2].port = 443

\* C5: enforceRateLimit(clientId) at time now returns true and records now
\* for the client iff the client has no record or now - lastAdmitted >=
\* 10000; otherwise it returns false and leaves the map unchanged.
C5_EnforceRateLimit ==
    [][\A r \in Reqs :
          (req[r].pc = "body" /\ req'[r].pc # "body") =>
              LET id == ClientIdOf(req[r].remote)
              IN  IF id \notin DOMAIN rateLimitMap
                     \/ now - rateLimitMap[id] >= RATE_LIMIT_WINDOW_MS
                  THEN req'[r].admitted /\ rateLimitMap'[id] = now
                  ELSE ~req'[r].admitted /\ rateLimitMap' = rateLimitMap]_vars

\* A client was admitted exactly one window after its last admission, and
\* the map holds the new time.
C5_Witness ==
    \E r1, r2 \in Reqs :
        /\ req[r1].admitted /\ req[r2].admitted
        /\ req[r1].clientId = req[r2].clientId
        /\ req[r2].at = req[r1].at + RATE_LIMIT_WINDOW_MS
        /\ rateLimitMap[req[r2].clientId] = req[r2].at

\* The requests of r's client that were admitted before r was handled.
AdmittedBefore(r) ==
    {p \in Reqs : /\ req[p].order > 0 /\ req[p].order < req[r].order
                  /\ req[p].clientId = req[r].clientId /\ req[p].admitted}

\* C6: two requests of one client are both admitted only if their admission
\* times differ by at least 10000 ms: a scan within 10 s of an admitted one
\* is answered 429 with the rate-limit error, one made 10 s or more after
\* it is admitted.
C6_OneScanPerWindow ==
    \A r \in Reqs :
        req[r].order > 0 =>
            /\ req[r].admitted <=>
                   \A p \in AdmittedBefore(r) : req[r].at - req[p].at >= RATE_LIMIT_WINDOW_MS
            /\ ~req[r].admitted =>
                   req[r].responses = <<[status |-> 429, content |-> [error |-> MsgTooManyRequests]]>>

\* A second scan of the same client, 5000 ms after the admitted one, has
\* been answered 429.
C6_Witness ==
    \E r1, r2 \in Reqs :
        /\ req[r1].admitted
        /\ req[r2].order = 2
        /\ req[r2].clientId = req[r1].clientId
        /\ req[r2].at = req[r1].at + (RATE_LIMIT_WINDOW_MS \div 2)
        /\ req[r2].responses # <<>>
        /\ req[r2].responses[1].status = 429

\* C7: when a request is handled while another request of the same client
\* is in flight (waiting for DNS or probing), the two are never both
\* admitted inside one 10-second window.
C7_AtomicAdmission ==
    \A r \in Reqs : \A p \in req[r].during :
        (req[p].clientId = req[r].clientId /\ req[r].admitted) =>
            req[r].at - req[p].at >= RATE_LIMIT_WINDOW_MS

\* A request was refused while another request of the same client, admitted
\* at the same clock reading, was still probing.
C7_Witness ==
    \E r \in Reqs : \E p \in req[r].during :
        /\ req[p].clientId = req[r].clientId
        /\ req[p].at = req[r].at
        /\ ~req[r].admitted
        /\ req[p].pc = "probe"

\* The client identities of the model.
Clients == {ClientIdOf(a) : a \in RemoteAddresses}

\* C20: the rate-limit map only grows and is per client.  In every step no
\* entry is removed and no timestamp decreases; an entry is created or
\* changed only by the step that admits a request of that very client,
\* which sets it to the time of the admission; and the step that handles a
\* request of one client leaves every other client's entry, and the answer
\* enforceRateLimit would give that client, as they were.
C20_RateLimitFrame ==
    [][/\ DOMAIN rateLimitMap \subseteq DOMAIN rateLimitMap'
       /\ \A c \in DOMAIN rateLimitMap : rateLimitMap'[c] >= rateLimitMap[c]
       /\ \A c \in DOMAIN rateLimitMap' :
              (c \notin DOMAIN rateLimitMap \/ rateLimitMap'[c] # rateLimitMap[c]) =>
                  /\ rateLimitMap'[c] = now
                  /\ \E r \in Reqs :
                         /\ req[r].pc = "body" /\ req'[r].pc # "body"
                         /\ req'[r].clientId = c
                         /\ req'[r].admitted
       /\ \A r \in Reqs :
              (req[r].pc = "body" /\ req'[r].pc # "body") =>
                  \A b \in Clients \ {req'[r].clientId} :
                      /\ (b \in DOMAIN rateLimitMap') = (b \in DOMAIN rateLimitMap)
                      /\ b \in DOMAIN rateLimitMap => rateLimitMap'[b] = rateLimitMap[b]
                      /\ enforceRateLimit(rateLimitMap', b, now).admit
                             = enforceRateLimit(rateLimitMap, b, now).admit]_vars

\* Both clients have an entry: client b was admitted first, client a at a
\* later time, and b's entry still holds the time of b's admission.
C20_Witness ==
    \E a, b \in Clients : \E r \in Reqs :
        /\ a \in DOMAIN rateLimitMap /\ b \in DOMAIN rateLimitMap
        /\ rateLimitMap[a] > rateLimitMap[b]
        /\ req[r].clientId = b
        /\ req[r].order > 0
        /\ req[r].at = rateLimitMap[b]
        /\ req[r].admitted

\* The request was answered with a failure after its admission was looked
\* at: a 400, or any failure of an admitted request.
FailedAfterAdmission(q) ==
    /\ q.order > 0
    /\ q.responses # <<>>
    /\ \/ LastResponse(q).status = 400
       \/ q.admitted /\ LastResponse(q).status # 200

\* C21: admission is consumed before the body is parsed or validated.  A
\* request answered 400 (unparsable body, invalid ports, invalid or
\* unresolvable target) was admitted and its admission time is recorded for
\* its client; every later request of that client handled less than 10000
\* ms after it is refused and answered 429 with the rate-limit error,
\* though the failed request probed nothing.
C21_AdmissionConsumedFirst ==
    \A p \in Reqs :
        FailedAfterAdmission(req[p]) =>
            /\ req[p].admitted
            /\ req[p].clientId \in DOMAIN rateLimitMap
            /\ rateLimitMap[req[p].clientId] >= req[p].at
            /\ \A r \in Reqs :
                   (/\ req[r].order > req[p].order
                    /\ req[r].clientId = req[p].clientId
                    /\ req[r].at - req[p].at < RATE_LIMIT_WINDOW_MS) =>
                       /\ ~req[r].admitted
                       /\ req[r].responses =
                              <<[status |-> 429, content |-> [error |-> MsgTooManyRequests]]>>

\* A request with ports outside the allow-list was answered 400 with no
\* probe made, and the same client's correct request 5000 ms later was
\* answered 429.
C21_Witness ==
    \E p, r \in Reqs :
        /\ req[p].body = ScanBody(Str(T_8_8_8_8), PortsBad)
        /\ req[p].admitted
        /\ req[p].responses = <<[status |-> 400, content |-> [error |-> MsgAllowedList]]>>
        /\ req[p].probes = <<>>
        /\ req[r].order > req[p].order
        /\ req[r].clientId = req[p].clientId
        /\ req[r].at = req[p].at + (RATE_LIMIT_WINDOW_MS \div 2)
        /\ req[r].body = ScanBody(Str(T_8_8_8_8), PortsGood)
        /\ req[r].responses # <<>>
        /\ LastResponse(req[r]).status = 429

\* A response of one of the three kinds: success, validation failure,
\* rate-limit failure.
IsScanResponse(resp) ==
    \/ /\ resp.status = 200
       /\ DOMAIN resp.content = {"target", "ip", "results", "timestamp"}
    \/ /\ resp.status \in {400, 429}
       /\ DOMAIN resp.content = {"error"}

\* C22: a request never has more than one response, it has one exactly
\* when its handling is over, the response is a 200 with target, ip,
\* results and timestamp or a 400 or 429 with error, and once written it
\* does not change; and every request whose body was received comes to its
\* response, given that its 'end' event is emitted, its DNS lookup settles
\* and each of its sockets emits connect, timeout or error.
C22_ExactlyOneResponse ==
    /\ [](\A r \in Reqs :
             /\ Len(req[r].responses) <= 1
             /\ (req[r].pc = "done") <=> (Len(req[r].responses) = 1)
             /\ \A i \in 1..Len(req[r].responses) : IsScanResponse(req[r].responses[i]))
    /\ [][\A r \in Reqs :
             req[r].responses # <<>> => req'[r].responses = req[r].responses]_vars
    /\ \A r \in Reqs :
           (req[r].pc = "body") ~> (req[r].pc = "done" /\ Len(req[r].responses) = 1)

\* Both requests were answered, one with 200 after its probes and one with
\* 400.
C22_Witness ==
    \E r1, r2 \in Reqs :
        /\ req[r1].pc = "done" /\ req[r2].pc = "done"
        /\ Len(req[r1].responses) = 1 /\ Len(req[r2].responses) = 1
        /\ req[r1].responses[1].status = 200
        /\ Len(req[r1].probes) = 2
        /\ req[r2].responses[1].status = 400

\* C8: a failure response is 429 iff admission was denied for the request;
\* every other failure (target, DNS error, ports, body) is 400.
C8_FailureClassification ==
    \A r \in Reqs : \A i \in 1..Len(req[r].responses) :
        LET status == req[r].responses[i].status
        IN  status # 200 =>
                /\ status \in {400, 429}
                /\ status = 429 <=> ~req[r].admitted

====
